---- MODULE Spec2Model ----
(***************************************************************************)
(* A model of the cohort revenue pipeline (pipeline_core.py, app.py).      *)
(* RevenuePipeline is one object: its fields are the variables below, its  *)
(* methods are the operators and actions.  Text is modelled as sequences   *)
(* of one-character strings so that str.strip() is a computation.          *)
(***************************************************************************)
EXTENDS Integers, Sequences, FiniteSets, TLC

(***************************************************************************)
(* Bounds of the model.                                                    *)
(***************************************************************************)
MaxCalls == 2
MaxDays == 2
MaxChunk == 2
MaxIds == 3
MaxWindow == 2
MaxCohorts == 2
MaxRuns == 2
MaxBatch == 3

(***************************************************************************)
(* Generic helpers on sequences.                                           *)
(***************************************************************************)
Range(s) == {s[i] : i \in 1..Len(s)}

SeqsUpTo(S, n) == UNION {[1..k -> S] : k \in 0..n}

\* The orders in which a finite set can be listed (iteration order of a set).
Orderings(S) == {s \in [1..Cardinality(S) -> S] : Range(s) = S}

Min(a, b) == IF a < b THEN a ELSE b

\* Python's s[i:j] with 0-based i, for 0 <= i.
Slice(s, i, j) == SubSeq(s, i + 1, Min(j, Len(s)))

RECURSIVE Concat(_)
Concat(ss) == IF ss = <<>> THEN <<>> ELSE Head(ss) \o Concat(Tail(ss))

RECURSIVE SumSeq(_)
SumSeq(s) == IF s = <<>> THEN 0 ELSE Head(s) + SumSeq(Tail(s))

(***************************************************************************)
(* Identifier extraction: extract_unique_user_ids.                         *)
(*                                                                         *)
(* A csv cell is a text, a sequence of characters; the empty text is what  *)
(* read_csv reports as NaN.  Cells are non-numeric text, so pandas keeps   *)
(* the column as strings and astype(str) changes nothing.                  *)
(***************************************************************************)
SP == " "
NaN == <<"N", "a", "N">>

\* The user_pseudo_id columns a file may hold: no row, blank and
\* whitespace-only cells, one identifier twice (padded and plain, or plain
\* and plain), two identifiers, one padded identifier, whitespace beside one.
FileColumns == { <<>>,
                 << <<>>, <<SP>> >>,
                 << <<SP, "a">>, <<"a">> >>,
                 << <<"a">>, <<"a">> >>,
                 << <<"a">>, <<"b", SP>> >>,
                 << <<"b", SP>> >>,
                 << <<SP>>, <<"a">> >> }

\* What one path holds when the extractor looks at it: no file, a file that
\* read_csv cannot read (no user_pseudo_id column), or the cells of the column.
FileStates == { [kind |-> "missing", cells |-> <<>>],
                [kind |-> "unreadable", cells |-> <<>>] }
              \cup { [kind |-> "ok", cells |-> c] : c \in FileColumns }

RECURSIVE LStrip(_)
LStrip(t) == IF t # <<>> /\ Head(t) = SP THEN LStrip(Tail(t)) ELSE t

RECURSIVE RStrip(_)
RStrip(t) == IF t # <<>> /\ t[Len(t)] = SP THEN RStrip(SubSeq(t, 1, Len(t) - 1)) ELSE t

\* str.strip()
Strip(t) == RStrip(LStrip(t))

\* pd.read_csv(...)['user_pseudo_id']: an empty field is NaN.
ReadColumn(cells) == [i \in 1..Len(cells) |-> IF cells[i] = <<>> THEN NaN ELSE cells[i]]

\* ValidIds with str.strip() left out.
ValidIdsUnstripped(cells) ==
    {t \in {ReadColumn(cells)[i] : i \in 1..Len(cells)} \ {NaN} : t # <<>>}

\* .dropna().astype(str).str.strip(), then valid_ids[valid_ids != '']
ValidIds(cells) ==
    LET col == ReadColumn(cells)
        kept == {i \in 1..Len(col) : col[i] # NaN}
        stripped == {Strip(col[i]) : i \in kept}
    IN {t \in stripped : t # <<>>}

\* The loop over csv_paths: the union of the valid ids of the files that are
\* present and readable.
CollectIds(files) ==
    UNION {IF files[i].kind = "ok" THEN ValidIds(files[i].cells) ELSE {} : i \in 1..Len(files)}

\* [uid for uid in user_ids if uid and str(uid).strip()], in the set's order.
FilterIds(order) == SelectSeq(order, LAMBDA t : t # <<>> /\ Strip(t) # <<>>)

\* The number of files the loop opens with read_csv.
FilesOpened(files) == Cardinality({i \in 1..Len(files) : files[i].kind # "missing"})

(***************************************************************************)
(* Cohort folders, pack files and csv paths.                               *)
(*                                                                         *)
(* A cohort folder name is the sequence of its '_'-separated tokens, a     *)
(* pack file name is a stem followed by a suffix.  FolderNames and         *)
(* CsvFiles list the names in the order Python compares their strings.     *)
(***************************************************************************)
FolderNames == << << <<"1">>, <<"j", "u", "l", "y">> >>,
                 << <<"2">>, <<"J", "U", "L">> >>,
                 << <<"3">>, <<"j", "l", "y">> >> >>

PacksSuffix == "_packs_with_ad_ids.csv"
AdIdsSuffix == "_with_ad_ids.csv"

Premium == <<"p", "r", "e", "m", "i", "u", "m">>
PremiumUpper == <<"P", "r", "e", "m", "i", "u", "m">>
Career == <<"c", "a", "r", "e", "e", "r">>
Event == <<"e", "v", "e", "n", "t">>
Micro == <<"m", "i", "c", "r", "o">>
Npl == <<"n", "p", "l">>
Stage1 == <<"s", "t", "a", "g", "e", "1", "_", "t", "o", "p", "_", "2", "5", "k">>

CsvFiles == << [stem |-> PremiumUpper, suffix |-> PacksSuffix],
               [stem |-> Career, suffix |-> PacksSuffix],
               [stem |-> Event, suffix |-> PacksSuffix],
               [stem |-> Micro, suffix |-> PacksSuffix],
               [stem |-> Npl, suffix |-> PacksSuffix],
               [stem |-> Premium, suffix |-> PacksSuffix],
               [stem |-> Stage1, suffix |-> AdIdsSuffix] >>

IndexOf(seq, x) == CHOOSE i \in 1..Len(seq) : seq[i] = x

\* str(Path(main_folder) / cohort / csv_file)
CsvPath(cohort, csv_file) == [cohort |-> cohort, file |-> csv_file]

\* p < q for the path strings
PathLess(p, q) ==
    \/ IndexOf(FolderNames, p.cohort) < IndexOf(FolderNames, q.cohort)
    \/ /\ p.cohort = q.cohort
       /\ IndexOf(CsvFiles, p.file) < IndexOf(CsvFiles, q.file)

RECURSIVE InsertSorted(_, _)
InsertSorted(p, sorted) ==
    IF sorted = <<>> THEN <<p>>
    ELSE IF PathLess(p, Head(sorted)) THEN <<p>> \o sorted
    ELSE <<Head(sorted)>> \o InsertSorted(p, Tail(sorted))

RECURSIVE SortPaths(_)
SortPaths(paths) ==
    IF paths = <<>> THEN <<>> ELSE InsertSorted(Head(paths), SortPaths(Tail(paths)))

\* key = tuple(sorted(csv_paths))
CacheKeyUnsorted(csv_paths) == csv_paths
CacheKey(csv_paths) == SortPaths(csv_paths)

(***************************************************************************)
(* Cohort resolver: get_date_range.                                        *)
(*                                                                         *)
(* A date is its day number counted from 1 January of the current year     *)
(* (1 = 1 January); the strftime text of a date is one-to-one with it.     *)
(***************************************************************************)
Digits == <<"0", "1", "2", "3", "4", "5", "6", "7", "8", "9">>
LowerCase == <<"a", "b", "c", "d", "e", "f", "g", "h", "i", "j", "k", "l", "m",
               "n", "o", "p", "q", "r", "s", "t", "u", "v", "w", "x", "y", "z">>
UpperCase == <<"A", "B", "C", "D", "E", "F", "G", "H", "I", "J", "K", "L", "M",
               "N", "O", "P", "Q", "R", "S", "T", "U", "V", "W", "X", "Y", "Z">>

IsIn(seq, x) == \E i \in 1..Len(seq) : seq[i] = x

LowerChar(c) == IF IsIn(UpperCase, c) THEN LowerCase[IndexOf(UpperCase, c)] ELSE c
UpperChar(c) == IF IsIn(LowerCase, c) THEN UpperCase[IndexOf(LowerCase, c)] ELSE c

\* str.lower()
Lower(t) == [i \in 1..Len(t) |-> LowerChar(t[i])]

\* str.capitalize(): the first character upper-cased, the rest lower-cased
Capitalize(t) == [i \in 1..Len(t) |-> IF i = 1 THEN UpperChar(t[i]) ELSE LowerChar(t[i])]

\* str.isdigit()
IsDigits(t) == t # <<>> /\ \A i \in 1..Len(t) : IsIn(Digits, t[i])

\* int(t) for a text of decimal digits
RECURSIVE IntOf(_)
IntOf(t) == IF t = <<>> THEN 0
            ELSE 10 * IntOf(SubSeq(t, 1, Len(t) - 1)) + (IndexOf(Digits, t[Len(t)]) - 1)

\* month_map
MonthMap ==
    << << <<"j","a","n","u","a","r","y">>, 1 >>, << <<"j","a","n">>, 1 >>,
       << <<"f","e","b","r","u","a","r","y">>, 2 >>, << <<"f","e","b">>, 2 >>,
       << <<"m","a","r","c","h">>, 3 >>, << <<"m","a","r">>, 3 >>,
       << <<"a","p","r","i","l">>, 4 >>, << <<"a","p","r">>, 4 >>,
       << <<"m","a","y">>, 5 >>,
       << <<"j","u","n","e">>, 6 >>, << <<"j","u","n">>, 6 >>,
       << <<"j","u","l","y">>, 7 >>, << <<"j","u","l">>, 7 >>,
       << <<"a","u","g","u","s","t">>, 8 >>, << <<"a","u","g">>, 8 >>,
       << <<"s","e","p","t","e","m","b","e","r">>, 9 >>, << <<"s","e","p">>, 9 >>,
       << <<"o","c","t","o","b","e","r">>, 10 >>, << <<"o","c","t">>, 10 >>,
       << <<"n","o","v","e","m","b","e","r">>, 11 >>, << <<"n","o","v">>, 11 >>,
       << <<"d","e","c","e","m","b","e","r">>, 12 >>, << <<"d","e","c">>, 12 >> >>

InMonthMap(name) == \E i \in 1..Len(MonthMap) : MonthMap[i][1] = name
MonthOf(name) == MonthMap[CHOOSE i \in 1..Len(MonthMap) : MonthMap[i][1] = name][2]

\* The days of each month of the current year, datetime's calendar.
DaysInMonth(month, leap) ==
    IF month = 2 THEN (IF leap THEN 29 ELSE 28)
    ELSE IF month \in {4, 6, 9, 11} THEN 30 ELSE 31

RECURSIVE DaysBefore(_, _)
DaysBefore(month, leap) ==
    IF month = 1 THEN 0 ELSE DaysBefore(month - 1, leap) + DaysInMonth(month - 1, leap)

NoDates == <<>>

\* A get_date_range whose end date is window_size days after the start.
GetDateRangeEndExclusive(cohort_name, window, leap) ==
    IF Len(cohort_name) # 2 THEN NoDates
    ELSE IF ~IsDigits(cohort_name[1]) THEN NoDates
    ELSE IF ~InMonthMap(Lower(cohort_name[2])) THEN NoDates
    ELSE LET day == IntOf(cohort_name[1])
             month == MonthOf(Lower(cohort_name[2]))
         IN  IF day < 1 \/ day > DaysInMonth(month, leap) THEN NoDates
             ELSE LET start_date == DaysBefore(month, leap) + day
                  IN  <<start_date, start_date + window>>

\* get_date_range: (start_date, end_date), or NoDates for (None, None).
\* int() raises on a day that is not a number, datetime() on a day the
\* month does not have; both end in the except branch.
GetDateRange(cohort_name, window, leap) ==
    IF Len(cohort_name) # 2 THEN NoDates
    ELSE IF ~IsDigits(cohort_name[1]) THEN NoDates
    ELSE IF ~InMonthMap(Lower(cohort_name[2])) THEN NoDates
    ELSE LET day == IntOf(cohort_name[1])
             month == MonthOf(Lower(cohort_name[2]))
         IN  IF day < 1 \/ day > DaysInMonth(month, leap) THEN NoDates
             ELSE LET start_date == DaysBefore(month, leap) + day
                  IN  <<start_date, start_date + (window - 1)>>

(***************************************************************************)
(* Exchange rate resolver: get_exchange_rate behind lru_cache.             *)
(*                                                                         *)
(* Rates are in thousandths of a rupee per dollar.  What requests.get      *)
(* does is one of: raise (network error, timeout), or answer with a status *)
(* and a body; the body is no JSON, JSON without "rates", or a list of     *)
(* daily entries, each with or without an INR rate.                        *)
(***************************************************************************)
FallbackRate == 86191
HttpOk == 200

NoInr == 0
DailyEntries == {NoInr, 85000, 86000}

ServiceResponses ==
    { [kind |-> "raises", status |-> 0, body |-> "none", rates |-> <<>>] }
    \cup { [kind |-> "answers", status |-> st, body |-> b, rates |-> <<>>] :
              st \in {HttpOk, 500}, b \in {"nojson", "norates"} }
    \cup { [kind |-> "answers", status |-> st, body |-> "rates", rates |-> r] :
              st \in {HttpOk, 500}, r \in SeqsUpTo(DailyEntries, MaxDays) }

\* inr_values = [rate["INR"] for rate in rates.values() if "INR" in rate]
InrValues(rates) == SelectSeq(rates, LAMBDA e : e # NoInr)

\* The body of the try block: a rate, or an exception.
RateTry(response) ==
    IF response.kind = "raises" THEN [raised |-> TRUE, rate |-> 0]
    ELSE IF response.status # HttpOk THEN [raised |-> FALSE, rate |-> FallbackRate]
    ELSE IF response.body = "nojson" THEN [raised |-> TRUE, rate |-> 0]
    ELSE IF response.body = "norates" THEN [raised |-> FALSE, rate |-> FallbackRate]
    ELSE IF InrValues(response.rates) = <<>> THEN [raised |-> FALSE, rate |-> FallbackRate]
    ELSE [raised |-> FALSE,
          rate |-> SumSeq(InrValues(response.rates)) \div Len(InrValues(response.rates))]

\* The function without its except branch: an exception of requests.get or
\* of response.json() leaves the function.
ExchangeRateUncaught(live, response) ==
    IF ~live THEN [raised |-> FALSE, rate |-> FallbackRate, called |-> FALSE]
    ELSE [raised |-> RateTry(response).raised, rate |-> RateTry(response).rate,
          called |-> TRUE]

\* The function body: what it returns and whether it called the service.
ExchangeRate(live, response) ==
    IF ~live THEN [raised |-> FALSE, rate |-> FallbackRate, called |-> FALSE]
    ELSE IF RateTry(response).raised
         THEN [raised |-> FALSE, rate |-> FallbackRate, called |-> TRUE]
         ELSE [raised |-> FALSE, rate |-> RateTry(response).rate, called |-> TRUE]

(***************************************************************************)
(* Query batcher: run_query.                                               *)
(*                                                                         *)
(* The backend answers one query with an exception or with rows; a row is  *)
(* the identifier and its product_value_INR, which the query computes as   *)
(* ROUND(product_value * avg_rate, 0).  Every identifier has bought for as *)
(* many dollars as its first letter's place in the alphabet.               *)
(***************************************************************************)
Uids == { <<"a">>, <<"b">>, <<"c">> }

ProductValue(uid) == IndexOf(LowerCase, uid[1])

\* ROUND(product_value * avg_rate, 0), avg_rate in thousandths
ValueInr(uid, avg_rate) == (ProductValue(uid) * avg_rate + 500) \div 1000

\* The rows for the identifiers of the chunk that have events in the date
\* range, in the chunk's order.
RowsFor(chunk, has, avg_rate) ==
    LET hit == SelectSeq(chunk, LAMBDA uid : uid \in has)
    IN  [k \in 1..Len(hit) |-> [uid |-> hit[k], inr |-> ValueInr(hit[k], avg_rate)]]

\* A chunk one identifier longer than chunk_size.
ChunkAtTooLong(user_ids, i, size) == Slice(user_ids, i, i + size + 1)

\* chunk = user_ids[i:i + self.config.chunk_size]
ChunkAt(user_ids, i, size) == Slice(user_ids, i, i + size)

\* A loop in which a failed chunk discards the tables collected so far.
AfterChunkFailureDropsAll(all_results, failed, rows) ==
    IF failed THEN <<>>
    ELSE IF rows = <<>> THEN all_results ELSE Append(all_results, rows)

\* The try block of one iteration: all_results after the query of a chunk
\* that failed, returned no row, or returned rows.
AfterChunk(all_results, failed, rows) ==
    IF failed \/ rows = <<>> THEN all_results ELSE Append(all_results, rows)

\* pd.concat(all_results, ignore_index=True), or the empty DataFrame
QueryResult(all_results) == Concat(all_results)

\* run_query as a whole, against a backend that fails the chunks whose first
\* identifier is in `down` and has events for the identifiers in `has`.
RECURSIVE RunQueryFrom(_, _, _, _, _, _, _)
RunQueryFrom(user_ids, i, size, all_results, avg_rate, has, down) ==
    IF i >= Len(user_ids) THEN QueryResult(all_results)
    ELSE LET chunk == ChunkAt(user_ids, i, size)
         IN  RunQueryFrom(user_ids, i + size, size,
                          AfterChunk(all_results, chunk[1] \in down,
                                     RowsFor(chunk, has, avg_rate)),
                          avg_rate, has, down)

RunQuery(user_ids, size, avg_rate, has, down) ==
    RunQueryFrom(user_ids, 0, size, <<>>, avg_rate, has, down)

\* The number of queries run_query sends: one per chunk.
QueriesSent(user_ids, size) == (Len(user_ids) + size - 1) \div size

(***************************************************************************)
(* Pack processor and the helpers of the orchestrator.                     *)
(***************************************************************************)
\* One batch of process_pack's loop, and the batches after it: all_batches
\* holds the non-empty tables run_query returned.
RECURSIVE BatchesFrom(_, _, _, _, _, _, _, _)
BatchesFrom(user_ids, i, batch, size, avg_rate, has, down, all_batches) ==
    IF i >= Len(user_ids) THEN all_batches
    ELSE LET batch_users == Slice(user_ids, i, i + batch)
             batch_df == RunQuery(batch_users, size, avg_rate, has, down)
         IN  BatchesFrom(user_ids, i + batch, batch, size, avg_rate, has, down,
                         IF batch_df # <<>> THEN Append(all_batches, batch_df)
                         ELSE all_batches)

\* full_df = pd.concat(all_batches)
PackRows(user_ids, batch, size, avg_rate, has, down) ==
    Concat(BatchesFrom(user_ids, 0, batch, size, avg_rate, has, down, <<>>))

\* total_revenue = full_df['product_value_INR'].sum(), 0 without rows
PackRevenue(rows) == SumSeq([k \in 1..Len(rows) |-> rows[k].inr])

\* The queries process_pack sends for a non-empty identifier list.
RECURSIVE PackQueriesFrom(_, _, _, _)
PackQueriesFrom(user_ids, i, batch, size) ==
    IF i >= Len(user_ids) THEN 0
    ELSE QueriesSent(Slice(user_ids, i, i + batch), size)
         + PackQueriesFrom(user_ids, i + batch, batch, size)

\* A process_pack that queries once even without identifiers.
PackQueryCountUnguarded(user_ids, batch, size) ==
    IF user_ids = <<>> THEN 1 ELSE PackQueriesFrom(user_ids, 0, batch, size)

\* The queries of one process_pack call: none when extraction gave no
\* identifier (the early return), else those of its batches.
PackQueryCount(user_ids, batch, size) ==
    IF user_ids = <<>> THEN 0 ELSE PackQueriesFrom(user_ids, 0, batch, size)

\* csv_file.replace("_packs_with_ad_ids.csv", "")
\*         .replace("stage1_top_25k_with_ad_ids.csv", "stage1_top_25k")
PackName(csv_file) ==
    IF csv_file.suffix = PacksSuffix THEN csv_file.stem
    ELSE IF csv_file.stem = Stage1 /\ csv_file.suffix = AdIdsSuffix THEN Stage1
    ELSE Append(csv_file.stem, csv_file.suffix)

TotalKey == <<"T", "o", "t", "a", "l">>

\* The key f"{pack_name.capitalize()} Revenue" of a result, without its
\* " Revenue" ending; "Total Revenue" is TotalKey.
FieldKey(csv_file) == Capitalize(PackName(csv_file))

\* get_pack_csv_paths: the csv paths of one pack over the folders of a group
PackPaths(cohort_group, csv_file) ==
    [k \in 1..Len(cohort_group) |-> CsvPath(cohort_group[k], csv_file)]

\* The sort key of get_cohort_folders: the leading number, 0 without one.
FolderKey(name) == IF IsDigits(name[1]) THEN IntOf(name[1]) ELSE 0

RECURSIVE InsertByKey(_, _)
InsertByKey(name, sorted) ==
    IF sorted = <<>> THEN <<name>>
    ELSE IF FolderKey(name) < FolderKey(Head(sorted)) THEN <<name>> \o sorted
    ELSE <<Head(sorted)>> \o InsertByKey(name, Tail(sorted))

\* folders.sort(key=...): a stable sort
RECURSIVE SortFolders(_)
SortFolders(folders) ==
    IF folders = <<>> THEN <<>>
    ELSE InsertByKey(folders[Len(folders)],
                     SortFolders(SubSeq(folders, 1, Len(folders) - 1)))

\* dict.update: the entries of `more` added to, or written over, those of d
Update(d, more) ==
    [k \in DOMAIN d \cup DOMAIN more |-> IF k \in DOMAIN more THEN more[k] ELSE d[k]]

(***************************************************************************)
(* The state of one RevenuePipeline object and of what it acts on.         *)
(***************************************************************************)
VARIABLES
    user_cache,     \* self.user_cache: sorted path tuple -> list of identifiers
    nReads,         \* how many times read_csv has been called since the
                    \* cohort window in progress began (outside the
                    \* orchestrator: since the object was made)
    lastCall,       \* the latest call of extract_unique_user_ids, as observed
    use_live_rates, \* config.use_live_rates
    leap,           \* whether datetime.now().year is a leap year
    rate_cache,     \* lru_cache of get_exchange_rate: (start, end) -> rate
    nRateCalls,     \* how many times requests.get has been called
    lastRate,       \* the latest call of get_exchange_rate, as observed
    chunk_size,     \* config.chunk_size
    batch_size,     \* config.batch_size
    nQueries,       \* how many times client.query has been called, counted
                    \* from the same moment as nReads
    q,              \* the call of run_query in progress: its locals, and what
                    \* it sent to and got from the backend
    window_size,    \* config.window_size
    pack_types,     \* config.pack_types
    client,         \* self.client: "none" until initialize_client succeeds
    total_cohorts,  \* self.total_cohorts
    processed_cohorts, \* self.processed_cohorts
    status,         \* st.session_state.pipeline_status, as update_progress sets it
    orch,           \* the entry point in progress: its locals and its outcome
    groups,         \* the cohort groups handed to process_cohort_group so far
    saved,          \* what save_summary was called with
    win,            \* the call of process_cohort_group in progress: its locals
    workers,        \* the futures of the window's pack workers
    lastDates,      \* the latest call of get_date_range, as observed
    app,            \* the dashboard: pipeline_status['status'], and how many
                    \* windows had been begun when Stop was pressed
    runs,           \* how many entry-point calls this object has had or is in
    pk              \* the call of process_pack in progress, on its own: its
                    \* locals, the backend it meets and the chunks it sent

extractVars == <<user_cache, nReads, lastCall>>

rateVars == <<use_live_rates, leap, rate_cache, nRateCalls, lastRate>>

queryVars == <<chunk_size, batch_size, nQueries, q>>

pipeVars == <<window_size, pack_types, client, total_cohorts, processed_cohorts,
              status, orch, groups, saved, win, workers>>

dateVars == <<lastDates>>

appVars == <<app, runs>>

packVars == <<pk>>

vars == <<extractVars, rateVars, queryVars, pipeVars, dateVars, appVars, packVars>>

NoDateCall == [open |-> FALSE, cohort_name |-> <<>>, result |-> NoDates]

DateIdle == lastDates = NoDateCall

\* execute_pipeline sets the status to running before it calls an entry point.
NoPack == [pc |-> "idle", user_ids |-> <<>>, has |-> {}, down |-> {}, i |-> 0,
           all_batches |-> <<>>, sent |-> <<>>, revenue |-> 0, n |-> 0]

\* No call of an entry point or of process_pack has been made; the dashboard
\* sets the status to running before it calls an entry point.
AppRunning ==
    /\ app = [status |-> "running", windows_at_stop |-> 0]
    /\ runs = 1
    /\ pk = NoPack

NoCall == [open |-> FALSE, paths |-> <<>>, files |-> <<>>, result |-> <<>>,
           hit |-> FALSE, n |-> 0]

ExtractIdle ==
    /\ user_cache = <<>>
    /\ nReads = 0
    /\ lastCall = NoCall

\* user_ids after the loop and the final filter, for the files found and the
\* order in which Python lists the set.
ExtractedIds(files, order) ==
    IF order \in Orderings(CollectIds(files)) THEN FilterIds(order) ELSE <<>>

\* self.user_cache[key] = user_ids
CacheStore(cache, csv_paths, user_ids) ==
    [k \in DOMAIN cache \cup {CacheKey(csv_paths)} |->
        IF k = CacheKey(csv_paths) THEN user_ids ELSE cache[k]]

\* if key in self.user_cache
CacheHit(csv_paths) == CacheKey(csv_paths) \in DOMAIN user_cache

(***************************************************************************)
(* extract_unique_user_ids called from one thread, with any list of the    *)
(* paths of one pack file and whatever the disk holds at that moment.      *)
(***************************************************************************)
ExtractPaths == {CsvPath(FolderNames[i], CsvFiles[6]) : i \in 1..2}

ExtractPathLists == {<<p>> : p \in ExtractPaths} \cup (ExtractPaths \X ExtractPaths)

ExtractCall ==
    /\ ~lastCall.open
    /\ lastCall.n < MaxCalls
    /\ \E csv_paths \in ExtractPathLists :
        IF CacheHit(csv_paths)
        THEN /\ lastCall' = [open |-> TRUE, paths |-> csv_paths, files |-> <<>>,
                             result |-> user_cache[CacheKey(csv_paths)],
                             hit |-> TRUE, n |-> lastCall.n + 1]
             /\ UNCHANGED <<user_cache, nReads>>
        ELSE \E files \in [1..Len(csv_paths) -> FileStates] :
             \E order \in Orderings(CollectIds(files)) :
                /\ user_cache' = CacheStore(user_cache, csv_paths, ExtractedIds(files, order))
                /\ nReads' = nReads + FilesOpened(files)
                /\ lastCall' = [open |-> TRUE, paths |-> csv_paths, files |-> files,
                                result |-> ExtractedIds(files, order),
                                hit |-> FALSE, n |-> lastCall.n + 1]

\* The caller takes the returned list; the observation of the call is dropped.
ExtractReturn ==
    /\ lastCall.open
    /\ lastCall' = [NoCall EXCEPT !.n = lastCall.n]
    /\ UNCHANGED <<user_cache, nReads>>

NextExtract ==
    \/ ExtractCall /\ UNCHANGED <<dateVars, appVars, packVars, rateVars, queryVars, pipeVars>>
    \/ ExtractReturn /\ UNCHANGED <<dateVars, appVars, packVars, rateVars, queryVars, pipeVars>>

(***************************************************************************)
(* get_exchange_rate called with the date ranges of cohort labels.         *)
(***************************************************************************)
NoResponse == [kind |-> "none", status |-> 0, body |-> "none", rates |-> <<>>]

NoRate == [open |-> FALSE, key |-> <<>>, hit |-> FALSE, called |-> FALSE,
           response |-> NoResponse, raised |-> FALSE, rate |-> 0, n |-> 0]

RateIdle ==
    /\ use_live_rates = TRUE
    /\ leap = FALSE
    /\ rate_cache = <<>>
    /\ nRateCalls = 0
    /\ lastRate = NoRate

\* lru_cache: a call with cached arguments returns the cached value and does
\* not run the function; a call that returns is cached, one that raises is
\* not.  (The 32-entry limit is never reached by the keys of this model.)
RateLookup(key, response) ==
    IF key \in DOMAIN rate_cache
    THEN [hit |-> TRUE, called |-> FALSE, raised |-> FALSE, rate |-> rate_cache[key]]
    ELSE [hit |-> FALSE, called |-> ExchangeRate(use_live_rates, response).called,
          raised |-> ExchangeRate(use_live_rates, response).raised,
          rate |-> ExchangeRate(use_live_rates, response).rate]

RateCacheAfter(key, response) ==
    IF key \in DOMAIN rate_cache \/ RateLookup(key, response).raised THEN rate_cache
    ELSE [k \in DOMAIN rate_cache \cup {key} |->
            IF k = key THEN RateLookup(key, response).rate ELSE rate_cache[k]]

\* The responses the service can give to a call that reaches it.
ResponsesFor(key) ==
    IF key \in DOMAIN rate_cache \/ ~use_live_rates THEN {NoResponse} ELSE ServiceResponses

RateKeys == {GetDateRange(FolderNames[i], w, FALSE) : i \in 1..2, w \in 1..2}

RateFresh ==
    /\ use_live_rates \in BOOLEAN
    /\ leap = FALSE
    /\ rate_cache = <<>>
    /\ nRateCalls = 0
    /\ lastRate = NoRate

RateCall ==
    /\ ~lastRate.open
    /\ lastRate.n < MaxCalls
    /\ \E key \in RateKeys : \E response \in ResponsesFor(key) :
        /\ lastRate' = [open |-> TRUE, key |-> key, hit |-> RateLookup(key, response).hit,
                        called |-> RateLookup(key, response).called,
                        response |-> response,
                        raised |-> RateLookup(key, response).raised,
                        rate |-> RateLookup(key, response).rate,
                        n |-> lastRate.n + 1]
        /\ rate_cache' = RateCacheAfter(key, response)
        /\ nRateCalls' = nRateCalls + (IF RateLookup(key, response).called THEN 1 ELSE 0)
    /\ UNCHANGED <<use_live_rates, leap>>

RateReturn ==
    /\ lastRate.open
    /\ lastRate' = [NoRate EXCEPT !.n = lastRate.n]
    /\ UNCHANGED <<use_live_rates, leap, rate_cache, nRateCalls>>

NextRate ==
    \/ RateCall /\ UNCHANGED <<dateVars, appVars, packVars, extractVars, queryVars, pipeVars>>
    \/ RateReturn /\ UNCHANGED <<dateVars, appVars, packVars, extractVars, queryVars, pipeVars>>

(***************************************************************************)
(* The orchestrator (run_full_pipeline, run_specific_cohorts), the cohort  *)
(* aggregator (process_cohort_group) and its pack workers (process_pack in *)
(* the threads of the ThreadPoolExecutor).                                 *)
(***************************************************************************)
PoolSize == 6

Catalogs == { << CsvFiles[6], CsvFiles[7] >>, << CsvFiles[6], CsvFiles[1] >> }

\* What a pack file of a cohort folder holds during a run of the pipeline:
\* it is missing, holds no identifier, or holds one identifier twice.
DiskStates == { [kind |-> "missing", cells |-> <<>>],
                [kind |-> "ok", cells |-> << <<>>, <<SP>> >>],
                [kind |-> "ok", cells |-> << <<SP, "a">>, <<"a">> >>] }

NoOrch == [pc |-> "idle", mode |-> "none", cohorts |-> <<>>, i |-> 0,
           results |-> <<>>, total_revenue |-> 0]

NoWindow == [pc |-> "none", group |-> <<>>, dates |-> NoDates, avg_rate |-> 0,
             total |-> 0, pack_results |-> <<>>, merged |-> {}]

NoStatus == [processed |-> 0, total |-> 0, revenue |-> 0]

NoSummary == [invoked |-> FALSE, results |-> <<>>]

PipeIdle ==
    /\ window_size = 1
    /\ pack_types = <<>>
    /\ client = "none"
    /\ total_cohorts = 0
    /\ processed_cohorts = 0
    /\ status = NoStatus
    /\ orch = NoOrch
    /\ groups = <<>>
    /\ saved = NoSummary
    /\ win = NoWindow
    /\ workers = <<>>

\* A fresh RevenuePipeline(config), RevenuePipeline.__init__
PipeFresh ==
    /\ window_size \in 1..MaxWindow
    /\ pack_types \in Catalogs
    /\ client = "none"
    /\ total_cohorts = 0
    /\ processed_cohorts = 0
    /\ status = NoStatus
    /\ orch = NoOrch
    /\ groups = <<>>
    /\ saved = NoSummary
    /\ win = NoWindow
    /\ workers = <<>>

\* The listings iterdir can give of the main folder: any of its folders in any
\* order; none when the folder is missing or empty.
FolderListings == UNION {Orderings(S) : S \in SUBSET Range(FolderNames)}

Packs == 1..Len(pack_types)

\* self.total_cohorts = len(cohort_folders) // self.config.window_size
FullTotal(cohort_folders) == Len(cohort_folders) \div window_size

\* len(cohort_groups) of run_specific_cohorts: every slice, the last one too
SpecificTotal(selected_cohorts) == (Len(selected_cohorts) + window_size - 1) \div window_size

\* initialize_client: self.client is set only when the constructor of the
\* backend client succeeds; otherwise it keeps what it held.
ClientAfter(init_ok) == IF init_ok THEN "ok" ELSE client

\* An entry point that goes on whatever initialize_client returned.
InitFailureIgnored(init_ok) == FALSE

\* if not self.initialize_client(): raise Exception(...)
InitFailureRaises(init_ok) == ~init_ok

\* run_full_pipeline up to its loop.  initialize_client returning False
\* raises; so does an empty folder list.
RunFullPipeline ==
    /\ orch.pc = "idle"
    /\ \E init_ok \in BOOLEAN : \E listing \in FolderListings :
        LET cohort_folders == SortFolders(listing)
        IN  IF InitFailureRaises(init_ok)
            THEN /\ orch' = [orch EXCEPT !.pc = "raised", !.mode = "full"]
                 /\ client' = ClientAfter(init_ok)
                 /\ UNCHANGED <<total_cohorts, status>>
            ELSE IF cohort_folders = <<>>
            THEN /\ orch' = [orch EXCEPT !.pc = "raised", !.mode = "full"]
                 /\ client' = ClientAfter(init_ok)
                 /\ UNCHANGED <<total_cohorts, status>>
            ELSE /\ client' = ClientAfter(init_ok)
                 /\ total_cohorts' = FullTotal(cohort_folders)
                 /\ status' = [processed |-> 0, total |-> FullTotal(cohort_folders),
                               revenue |-> 0]
                 /\ orch' = [NoOrch EXCEPT !.pc = "loop", !.mode = "full",
                                           !.cohorts = cohort_folders]
    /\ UNCHANGED <<window_size, pack_types, processed_cohorts, groups, saved, win, workers>>
    /\ UNCHANGED <<dateVars, appVars, packVars, extractVars, rateVars, queryVars>>

\* run_specific_cohorts up to its loop.
RunSpecificCohorts ==
    /\ orch.pc = "idle"
    /\ \E init_ok \in BOOLEAN : \E selected_cohorts \in SeqsUpTo(Range(FolderNames), MaxCohorts) :
        IF InitFailureRaises(init_ok)
        THEN /\ orch' = [orch EXCEPT !.pc = "raised", !.mode = "specific"]
             /\ client' = ClientAfter(init_ok)
             /\ UNCHANGED <<total_cohorts, status>>
        ELSE IF selected_cohorts = <<>>
        THEN /\ orch' = [orch EXCEPT !.pc = "raised", !.mode = "specific"]
             /\ client' = ClientAfter(init_ok)
             /\ UNCHANGED <<total_cohorts, status>>
        ELSE /\ client' = ClientAfter(init_ok)
             /\ total_cohorts' = SpecificTotal(selected_cohorts)
             /\ status' = [processed |-> 0, total |-> SpecificTotal(selected_cohorts),
                           revenue |-> 0]
             /\ orch' = [NoOrch EXCEPT !.pc = "loop", !.mode = "specific",
                                       !.cohorts = selected_cohorts]
    /\ UNCHANGED <<window_size, pack_types, processed_cohorts, groups, saved, win, workers>>
    /\ UNCHANGED <<dateVars, appVars, packVars, extractVars, rateVars, queryVars>>

\* cohort_group = cohorts[i:i + self.config.window_size]
GroupAt(cohorts, i) == Slice(cohorts, i, i + window_size)

\* A loop that hands every group to process_cohort_group.
GroupIsProcessedAlways(mode, cohort_group) == TRUE

\* The group the loop is at is handed to process_cohort_group: in
\* run_specific_cohorts always, in run_full_pipeline when it is full.
GroupIsProcessed(mode, cohort_group) ==
    mode = "specific" \/ Len(cohort_group) = window_size

\* An iteration of run_full_pipeline's loop over a group shorter than
\* window_size: nothing is done.
SkipShortGroup ==
    /\ orch.pc = "loop" /\ win.pc = "none"
    /\ orch.i < Len(orch.cohorts)
    /\ ~GroupIsProcessed(orch.mode, GroupAt(orch.cohorts, orch.i))
    /\ orch' = [orch EXCEPT !.i = orch.i + window_size]
    /\ UNCHANGED <<window_size, pack_types, client, total_cohorts, processed_cohorts,
                   status, groups, saved, win, workers>>
    /\ UNCHANGED <<dateVars, appVars, packVars, extractVars, rateVars, queryVars>>

\* A loop that a window without a result ends.
LoopEndsAfterSkip(o) == [o EXCEPT !.i = Len(o.cohorts)]

\* The entry point's loop after process_cohort_group returned None: "if
\* result" is false, nothing is recorded, the next group is taken.
LoopAfterSkip(o) == [o EXCEPT !.i = o.i + window_size]

\* process_cohort_group up to the with block: the date range, the rate, the
\* submission of one future per pack.  Without a date range it returns None
\* and the loop goes on.
WindowBegin ==
    /\ orch.pc = "loop" /\ win.pc = "none"
    /\ orch.i < Len(orch.cohorts)
    /\ GroupIsProcessed(orch.mode, GroupAt(orch.cohorts, orch.i))
    /\ LET cohort_group == GroupAt(orch.cohorts, orch.i)
           dates == GetDateRange(cohort_group[1], window_size, leap)
       IN  /\ groups' = Append(groups, cohort_group)
           /\ IF dates = NoDates
              THEN /\ orch' = LoopAfterSkip(orch)
                   /\ UNCHANGED <<win, workers, rate_cache, nRateCalls>>
              ELSE \E response \in ResponsesFor(dates) :
                   /\ ~RateLookup(dates, response).raised
                   /\ rate_cache' = RateCacheAfter(dates, response)
                   /\ nRateCalls' = nRateCalls
                                    + (IF RateLookup(dates, response).called THEN 1 ELSE 0)
                   /\ win' = [NoWindow EXCEPT !.pc = "pool", !.group = cohort_group,
                                              !.dates = dates,
                                              !.avg_rate = RateLookup(dates, response).rate]
                   /\ workers' = [p \in Packs |->
                                    [st |-> "queued", user_ids |-> <<>>, empty |-> FALSE,
                                     raised |-> FALSE, revenue |-> 0]]
                   /\ UNCHANGED orch
    /\ UNCHANGED <<window_size, pack_types, client, total_cohorts, processed_cohorts,
                   status, saved>>
    /\ UNCHANGED <<dateVars, appVars, packVars, extractVars, use_live_rates, leap, lastRate, queryVars>>

Running == {p \in DOMAIN workers : workers[p].st \in {"reading", "extracted"}}

\* A pool thread takes the pack's future and runs process_pack up to the
\* cache lookup of extract_unique_user_ids.
\* A pool that runs every submitted future at once.
PoolUnbounded(running) == TRUE

\* ThreadPoolExecutor(max_workers=6): a queued future is taken when fewer
\* than six are running.
PoolHasIdleThread(running) == Cardinality(running) < PoolSize

WorkerStart(p) ==
    /\ win.pc = "pool"
    /\ workers[p].st = "queued"
    /\ PoolHasIdleThread(Running)
    /\ LET csv_paths == PackPaths(win.group, pack_types[p])
       IN  workers' = [workers EXCEPT ![p].st = IF CacheHit(csv_paths) THEN "extracted"
                                                ELSE "reading",
                                      ![p].user_ids = IF CacheHit(csv_paths)
                                                      THEN user_cache[CacheKey(csv_paths)]
                                                      ELSE <<>>,
                                      ![p].empty = CacheHit(csv_paths)
                                                   /\ user_cache[CacheKey(csv_paths)] = <<>>]
    /\ UNCHANGED <<window_size, pack_types, client, total_cohorts, processed_cohorts,
                   status, orch, groups, saved, win>>
    /\ UNCHANGED <<dateVars, appVars, packVars, extractVars, rateVars, queryVars>>

\* The rest of extract_unique_user_ids after a cache miss: the files are
\* read and the list is stored.
WorkerRead(p) ==
    /\ win.pc = "pool"
    /\ workers[p].st = "reading"
    /\ LET csv_paths == PackPaths(win.group, pack_types[p])
       IN  \E files \in [1..Len(csv_paths) -> DiskStates] :
           \E order \in Orderings(CollectIds(files)) :
              /\ user_cache' = CacheStore(user_cache, csv_paths, ExtractedIds(files, order))
              /\ nReads' = nReads + FilesOpened(files)
              /\ workers' = [workers EXCEPT ![p].st = "extracted",
                                            ![p].user_ids = ExtractedIds(files, order),
                                            ![p].empty = (ExtractedIds(files, order) = <<>>)]
    /\ UNCHANGED <<window_size, pack_types, client, total_cohorts, processed_cohorts,
                   status, orch, groups, saved, win>>
    /\ UNCHANGED <<dateVars, appVars, packVars, lastCall, rateVars, queryVars>>

\* The rest of process_pack: 0 without identifiers; otherwise the batches
\* are queried, the rows summed and written to <pack>.csv.  to_csv failing
\* is an exception of the worker.
WorkerQuery(p) ==
    /\ win.pc = "pool"
    /\ workers[p].st = "extracted"
    /\ LET user_ids == workers[p].user_ids
       IN  IF user_ids = <<>>
           THEN /\ workers' = [workers EXCEPT ![p].st = "done", ![p].revenue = 0]
                /\ nQueries' = nQueries + PackQueryCount(user_ids, batch_size, chunk_size)
           ELSE \E has \in SUBSET Range(user_ids) : \E down \in SUBSET Range(user_ids) :
                \E written \in BOOLEAN :
                  LET rows == PackRows(user_ids, batch_size, chunk_size, win.avg_rate,
                                       has, down)
                  IN  /\ (rows = <<>> => written)
                      /\ nQueries' = nQueries
                                     + PackQueryCount(user_ids, batch_size, chunk_size)
                      /\ workers' = [workers EXCEPT
                                        ![p].st = "done",
                                        ![p].user_ids = <<>>,
                                        ![p].raised = ~written,
                                        ![p].revenue = IF written THEN PackRevenue(rows)
                                                       ELSE 0]
    /\ UNCHANGED <<window_size, pack_types, client, total_cohorts, processed_cohorts,
                   status, orch, groups, saved, win>>
    /\ UNCHANGED <<dateVars, appVars, packVars, extractVars, rateVars, chunk_size, batch_size, q>>

\* An unexpected error anywhere in process_pack ends the worker.
WorkerCrash(p) ==
    /\ win.pc = "pool"
    /\ workers[p].st \in {"reading", "extracted"}
    /\ workers' = [workers EXCEPT ![p].st = "done", ![p].user_ids = <<>>,
                                  ![p].raised = TRUE]
    /\ UNCHANGED <<window_size, pack_types, client, total_cohorts, processed_cohorts,
                   status, orch, groups, saved, win>>
    /\ UNCHANGED <<dateVars, appVars, packVars, extractVars, rateVars, queryVars>>

\* pack_results after the body of the as_completed loop for one future
MergedResults(pack_results, csv_file, worker) ==
    Update(pack_results,
           [k \in {FieldKey(csv_file)} |-> IF worker.raised THEN 0 ELSE worker.revenue])

\* cohort_results["Total Revenue"] after the body of the loop for one future
MergedTotal(total, worker) == IF worker.raised THEN total ELSE total + worker.revenue

\* One iteration of the as_completed loop: a finished future is merged.
Merge(p) ==
    /\ win.pc = "pool"
    /\ workers[p].st = "done"
    /\ p \notin win.merged
    /\ win' = [win EXCEPT !.merged = win.merged \cup {p},
                          !.pack_results = MergedResults(win.pack_results, pack_types[p],
                                                         workers[p]),
                          !.total = MergedTotal(win.total, workers[p])]
    /\ UNCHANGED <<window_size, pack_types, client, total_cohorts, processed_cohorts,
                   status, orch, groups, saved, workers>>
    /\ UNCHANGED <<dateVars, appVars, packVars, extractVars, rateVars, queryVars>>

\* The dict process_cohort_group returns:
\* cohort_results.update(pack_results) over {"Cohort", "Total Revenue"}
CohortResult(cohort_label, total, pack_results) ==
    [cohort |-> cohort_label,
     fields |-> Update([k \in {TotalKey} |-> total], pack_results)]

\* Every future is merged: process_cohort_group returns its result and the
\* loop of the entry point appends it and reports progress.
WindowEnd ==
    /\ win.pc = "pool"
    /\ win.merged = Packs
    /\ LET result == CohortResult(win.group[1], win.total, win.pack_results)
       IN  /\ orch' = [orch EXCEPT !.i = orch.i + window_size,
                                   !.results = Append(orch.results, result),
                                   !.total_revenue = orch.total_revenue
                                                     + result.fields[TotalKey]]
           /\ processed_cohorts' = processed_cohorts + 1
           /\ status' = [processed |-> processed_cohorts + 1, total |-> total_cohorts,
                         revenue |-> orch.total_revenue + result.fields[TotalKey]]
    /\ win' = NoWindow
    /\ workers' = <<>>
    /\ nReads' = 0
    /\ nQueries' = 0
    /\ UNCHANGED <<window_size, pack_types, client, total_cohorts, groups, saved>>
    /\ UNCHANGED <<dateVars, appVars, packVars, user_cache, lastCall, rateVars, chunk_size, batch_size, q>>

\* After the loop: run_full_pipeline calls save_summary if there are results,
\* run_specific_cohorts does not; both return the list.
SummaryAfterLoop(mode, results) ==
    IF mode = "full" /\ results # <<>> THEN [invoked |-> TRUE, results |-> results]
    ELSE NoSummary

Finish ==
    /\ orch.pc = "loop" /\ win.pc = "none"
    /\ orch.i >= Len(orch.cohorts)
    /\ saved' = SummaryAfterLoop(orch.mode, orch.results)
    /\ orch' = [orch EXCEPT !.pc = "returned"]
    /\ UNCHANGED <<window_size, pack_types, client, total_cohorts, processed_cohorts,
                   status, groups, win, workers>>
    /\ UNCHANGED <<dateVars, appVars, packVars, extractVars, rateVars, queryVars>>

Next ==
    \/ RunFullPipeline
    \/ RunSpecificCohorts
    \/ SkipShortGroup
    \/ WindowBegin
    \/ \E p \in DOMAIN workers : WorkerStart(p)
    \/ \E p \in DOMAIN workers : WorkerRead(p)
    \/ \E p \in DOMAIN workers : WorkerQuery(p)
    \/ \E p \in DOMAIN workers : WorkerCrash(p)
    \/ \E p \in DOMAIN workers : Merge(p)
    \/ WindowEnd
    \/ Finish

(***************************************************************************)
(* A run of an entry point during which Stop may be pressed.               *)
(***************************************************************************)
\* stop_pipeline: the status dict is replaced by {'status': 'idle'}; the
\* progress keys are gone until update_progress writes them again.  The
\* entry points read neither.
StopPipeline ==
    /\ orch.pc = "loop"
    /\ app.status = "running"
    /\ app' = [status |-> "idle", windows_at_stop |-> Len(groups)]
    /\ status' = NoStatus
    /\ UNCHANGED runs
    /\ UNCHANGED <<window_size, pack_types, client, total_cohorts, processed_cohorts,
                   orch, groups, saved, win, workers>>
    /\ UNCHANGED <<dateVars, packVars, extractVars, rateVars, queryVars>>

NextStop ==
    \/ Next
    \/ StopPipeline

(***************************************************************************)
(* run_query called with any identifier list, one loop iteration per step. *)
(***************************************************************************)
NoQuery == [pc |-> "idle", user_ids |-> <<>>, i |-> 0, all_results |-> <<>>,
            sent |-> <<>>, answers |-> <<>>, result |-> <<>>, n |-> 0]

QueryIdle ==
    /\ chunk_size = 1
    /\ batch_size = 1
    /\ nQueries = 0
    /\ q = NoQuery

QueryFresh ==
    /\ chunk_size \in 1..MaxChunk
    /\ batch_size = 1
    /\ nQueries = 0
    /\ q = NoQuery

\* if not user_ids: return pd.DataFrame(); else all_results = []
QueryBegin ==
    /\ q.pc = "idle"
    /\ q.n < MaxCalls
    /\ \E user_ids \in SeqsUpTo(Uids, MaxIds) :
        q' = [NoQuery EXCEPT !.pc = IF user_ids = <<>> THEN "returned" ELSE "loop",
                             !.user_ids = user_ids, !.n = q.n + 1]
    /\ UNCHANGED <<chunk_size, batch_size, nQueries>>

\* One iteration of the for loop: the query of one chunk.
QueryChunk ==
    /\ q.pc = "loop"
    /\ q.i < Len(q.user_ids)
    /\ LET chunk == ChunkAt(q.user_ids, q.i, chunk_size)
       IN  \E failed \in BOOLEAN : \E has \in SUBSET Range(chunk) :
             LET rows == IF failed THEN <<>> ELSE RowsFor(chunk, has, FallbackRate)
             IN  /\ (failed => has = {})
                 /\ q' = [q EXCEPT !.i = q.i + chunk_size,
                                   !.all_results = AfterChunk(q.all_results, failed, rows),
                                   !.sent = Append(q.sent, chunk),
                                   !.answers = Append(q.answers,
                                                      [failed |-> failed, rows |-> rows])]
    /\ nQueries' = nQueries + 1
    /\ UNCHANGED <<chunk_size, batch_size>>

\* After the loop: the concatenation is returned.
QueryEnd ==
    /\ q.pc = "loop"
    /\ q.i >= Len(q.user_ids)
    /\ q' = [q EXCEPT !.pc = "returned", !.result = QueryResult(q.all_results)]
    /\ UNCHANGED <<chunk_size, batch_size, nQueries>>

\* The caller takes the result.
QueryReturn ==
    /\ q.pc = "returned"
    /\ q' = [NoQuery EXCEPT !.n = q.n]
    /\ UNCHANGED <<chunk_size, batch_size, nQueries>>

NextQuery ==
    \/ QueryBegin /\ UNCHANGED <<dateVars, appVars, packVars, extractVars, rateVars, pipeVars>>
    \/ QueryChunk /\ UNCHANGED <<dateVars, appVars, packVars, extractVars, rateVars, pipeVars>>
    \/ QueryEnd /\ UNCHANGED <<dateVars, appVars, packVars, extractVars, rateVars, pipeVars>>
    \/ QueryReturn /\ UNCHANGED <<dateVars, appVars, packVars, extractVars, rateVars, pipeVars>>

InitQuery == ExtractIdle /\ RateIdle /\ QueryFresh /\ PipeIdle /\ DateIdle /\ AppRunning

SpecQuery == InitQuery /\ [][NextQuery]_vars

InitExtract == ExtractIdle /\ RateIdle /\ QueryIdle /\ PipeIdle /\ DateIdle /\ AppRunning

SpecExtract == InitExtract /\ [][NextExtract]_vars

InitRate == ExtractIdle /\ RateFresh /\ QueryIdle /\ PipeIdle /\ DateIdle /\ AppRunning

SpecRate == InitRate /\ [][NextRate]_vars

(***************************************************************************)
(* process_pack on its own: any list of distinct identifiers, any batch    *)
(* and chunk size, one batch per step, against a backend that has events   *)
(* for the identifiers in `has` and fails the chunks that begin with an     *)
(* identifier in `down`.                                                   *)
(***************************************************************************)
\* A batch that runs one identifier into the next batch.
BatchAtOverlapping(user_ids, i, batch) == Slice(user_ids, i, i + batch + 1)

\* batch_users = user_ids[i:i + self.config.batch_size]
BatchAt(user_ids, i, batch) == Slice(user_ids, i, i + batch)

\* The chunks run_query sends for one batch, in order.
ChunksOf(batch_users, size) ==
    [k \in 1..QueriesSent(batch_users, size) |-> ChunkAt(batch_users, (k - 1) * size, size)]

PackFresh ==
    /\ chunk_size \in 1..MaxChunk
    /\ batch_size \in 1..MaxBatch
    /\ nQueries = 0
    /\ q = NoQuery

\* user_ids = self.extract_unique_user_ids(csv_paths); 0 is returned when
\* it is empty.
PackBegin ==
    /\ pk.pc = "idle"
    /\ pk.n < MaxCalls
    /\ \E S \in SUBSET Uids : \E user_ids \in Orderings(S) :
       \E has \in SUBSET S : \E down \in SUBSET S :
          /\ Len(user_ids) <= MaxIds
          /\ pk' = [NoPack EXCEPT !.pc = IF user_ids = <<>> THEN "returned" ELSE "loop",
                                   !.user_ids = user_ids, !.has = has, !.down = down,
                                   !.n = pk.n + 1]
    /\ UNCHANGED nQueries

\* One iteration of the batch loop: run_query on the batch.
PackBatch ==
    /\ pk.pc = "loop"
    /\ pk.i < Len(pk.user_ids)
    /\ LET batch_users == BatchAt(pk.user_ids, pk.i, batch_size)
           batch_df == RunQuery(batch_users, chunk_size, FallbackRate, pk.has, pk.down)
       IN  /\ pk' = [pk EXCEPT !.i = pk.i + batch_size,
                                !.sent = pk.sent \o ChunksOf(batch_users, chunk_size),
                                !.all_batches = IF batch_df # <<>>
                                                THEN Append(pk.all_batches, batch_df)
                                                ELSE pk.all_batches]
           /\ nQueries' = nQueries + QueriesSent(batch_users, chunk_size)

\* After the loop: the rows of the batches are joined and summed.
PackEnd ==
    /\ pk.pc = "loop"
    /\ pk.i >= Len(pk.user_ids)
    /\ pk' = [pk EXCEPT !.pc = "returned",
                         !.revenue = PackRevenue(Concat(pk.all_batches))]
    /\ UNCHANGED nQueries

\* The caller takes the revenue.
PackReturn ==
    /\ pk.pc = "returned"
    /\ pk' = [NoPack EXCEPT !.n = pk.n]
    /\ nQueries' = 0

NextPack ==
    \/ PackBegin /\ UNCHANGED <<dateVars, app, runs, extractVars, rateVars, pipeVars,
                                 chunk_size, batch_size, q>>
    \/ PackBatch /\ UNCHANGED <<dateVars, app, runs, extractVars, rateVars, pipeVars,
                                 chunk_size, batch_size, q>>
    \/ PackEnd /\ UNCHANGED <<dateVars, app, runs, extractVars, rateVars, pipeVars,
                               chunk_size, batch_size, q>>
    \/ PackReturn /\ UNCHANGED <<dateVars, app, runs, extractVars, rateVars, pipeVars,
                                  chunk_size, batch_size, q>>

InitPack == ExtractIdle /\ RateIdle /\ PackFresh /\ PipeIdle /\ DateIdle /\ AppRunning

SpecPack == InitPack /\ [][NextPack]_vars

(***************************************************************************)
(* get_date_range on its own: a label is resolved against the configured   *)
(* window size in a year that is a leap year or not.                       *)
(***************************************************************************)
\* Day tokens: the ends of the range, the days only some months have, a
\* zero-padded day, and tokens int() refuses or that are out of range.
DayTokens ==
    { <<"1">>, <<"0", "9">>, <<"2", "8">>, <<"2", "9">>, <<"3", "0">>, <<"3", "1">>,
      <<"0">>, <<"3", "2">>, <<"x">>, <<>> }

\* Month tokens: full names and abbreviations in several letter cases, and
\* one token month_map does not hold.
MonthTokens ==
    { <<"f", "e", "b">>, <<"F", "E", "B">>, <<"F", "e", "b", "r", "u", "a", "r", "y">>,
      <<"a", "p", "r", "i", "l">>, <<"J", "U", "L">>, <<"j", "u", "L", "y">>,
      <<"D", "e", "c">>, <<"d", "e", "c", "e", "m", "b", "e", "r">>,
      <<"j", "l", "y">> }

\* cohort_name.split('_') of the labels tried
DateLabels ==
    { <<d, m>> : d \in DayTokens, m \in MonthTokens }
      \cup { << <<"1">> >>, << <<"1">>, <<"j", "u", "l">>, <<"a">> >> }

DateFresh ==
    /\ lastDates = NoDateCall
    /\ window_size \in 1..MaxWindow
    /\ leap \in BOOLEAN

\* One call of get_date_range.
DateCall ==
    /\ ~lastDates.open
    /\ \E cohort_name \in DateLabels :
          lastDates' = [open |-> TRUE, cohort_name |-> cohort_name,
                        result |-> GetDateRange(cohort_name, window_size, leap)]

\* The caller takes the pair; the observation of the call is dropped.
DateReturn ==
    /\ lastDates.open
    /\ lastDates' = NoDateCall

NextDates ==
    \/ DateCall /\ UNCHANGED <<appVars, packVars, extractVars, rateVars, queryVars, pipeVars>>
    \/ DateReturn /\ UNCHANGED <<appVars, packVars, extractVars, rateVars, queryVars, pipeVars>>

InitDates ==
    /\ ExtractIdle /\ QueryIdle /\ DateFresh /\ AppRunning
    /\ use_live_rates = TRUE /\ rate_cache = <<>> /\ nRateCalls = 0 /\ lastRate = NoRate
    /\ pack_types = <<>> /\ client = "none" /\ total_cohorts = 0
    /\ processed_cohorts = 0 /\ status = NoStatus /\ orch = NoOrch
    /\ groups = <<>> /\ saved = NoSummary /\ win = NoWindow /\ workers = <<>>

SpecDates == InitDates /\ [][NextDates]_vars

(***************************************************************************)
(* A run of one entry point on a fresh pipeline object.                    *)
(***************************************************************************)
\* The configuration of a run: one cached or fallback rate per window, one
\* batch of up to two identifiers, queried one identifier per chunk.
PipeConfig ==
    /\ use_live_rates = FALSE
    /\ leap = FALSE
    /\ rate_cache = <<>>
    /\ nRateCalls = 0
    /\ lastRate = NoRate
    /\ chunk_size = 1
    /\ batch_size = 2
    /\ nQueries = 0
    /\ q = NoQuery

Init == ExtractIdle /\ PipeConfig /\ PipeFresh /\ DateIdle /\ AppRunning

Spec == Init /\ [][Next]_vars

(***************************************************************************)
(* A run over a catalog of more packs than the pool has threads.           *)
(***************************************************************************)
\* The default catalog and one pack more.
PoolCatalog == << CsvFiles[6], CsvFiles[2], CsvFiles[3], CsvFiles[4], CsvFiles[5],
                 CsvFiles[7], CsvFiles[1] >>

\* The object after run_specific_cohorts(["1_july", "2_JUL"]) with
\* window_size 1 found none of the pack files: both windows gave a result,
\* every path list is cached as empty and both rates are cached.
InitPool ==
    /\ window_size = 1
    /\ pack_types = PoolCatalog
    /\ user_cache = [k \in {CacheKey(PackPaths(<<FolderNames[i]>>, PoolCatalog[p])) :
                               i \in 1..2, p \in 1..Len(PoolCatalog)} |-> <<>>]
    /\ nReads = 0
    /\ lastCall = NoCall
    /\ use_live_rates = FALSE
    /\ leap = FALSE
    /\ rate_cache = [k \in {GetDateRange(FolderNames[i], 1, FALSE) : i \in 1..2}
                        |-> FallbackRate]
    /\ nRateCalls = 0
    /\ lastRate = NoRate
    /\ chunk_size = 1
    /\ batch_size = 2
    /\ nQueries = 0
    /\ q = NoQuery
    /\ client = "ok"
    /\ total_cohorts = 2
    /\ processed_cohorts = 2
    /\ status = [processed |-> 2, total |-> 2, revenue |-> 0]
    /\ orch = NoOrch
    /\ groups = <<>>
    /\ saved = NoSummary
    /\ win = NoWindow
    /\ workers = <<>>
    /\ lastDates = NoDateCall
    /\ app = [status |-> "running", windows_at_stop |-> 0]
    /\ runs = 2
    /\ pk = NoPack

NextPool ==
    \/ RunFullPipeline
    \/ WindowBegin
    \/ \E p \in DOMAIN workers : WorkerStart(p)
    \/ \E p \in DOMAIN workers : WorkerQuery(p)
    \/ \E p \in DOMAIN workers : Merge(p)
    \/ WindowEnd
    \/ Finish

SpecPool == InitPool /\ [][NextPool]_vars

(***************************************************************************)
(* Entry points called one after the other on the same object.             *)
(***************************************************************************)
\* The entry point has returned or raised and the caller calls an entry
\* point of the same object again: the locals of the call are gone, the
\* fields of the object are whatever the call left.
CallAgain ==
    /\ orch.pc \in {"returned", "raised"}
    /\ runs < MaxRuns
    /\ runs' = runs + 1
    /\ orch' = NoOrch
    /\ groups' = <<>>
    /\ saved' = NoSummary
    /\ UNCHANGED <<window_size, pack_types, client, total_cohorts, processed_cohorts,
                   status, win, workers, app>>
    /\ UNCHANGED <<dateVars, packVars, extractVars, rateVars, queryVars>>

NextRerun ==
    \/ Next
    \/ CallAgain

\* A fresh object configured with two-folder windows and the first catalog.
InitRerun ==
    /\ ExtractIdle /\ PipeConfig /\ DateIdle /\ AppRunning
    /\ window_size = 2
    /\ pack_types = << CsvFiles[6], CsvFiles[7] >>
    /\ client = "none"
    /\ total_cohorts = 0
    /\ processed_cohorts = 0
    /\ status = NoStatus
    /\ orch = NoOrch
    /\ groups = <<>>
    /\ saved = NoSummary
    /\ win = NoWindow
    /\ workers = <<>>

SpecRerun == InitRerun /\ [][NextRerun]_vars

InitStop == ExtractIdle /\ PipeConfig /\ PipeFresh /\ DateIdle /\ AppRunning

SpecStop == InitStop /\ [][NextStop]_vars

(***************************************************************************)
(* Properties of identifier extraction.                                    *)
(***************************************************************************)
Count(s, x) == Cardinality({i \in 1..Len(s) : s[i] = x})

\* s and t list the same paths the same number of times, in any order.
SameList(s, t) == \A x \in Range(s) \cup Range(t) : Count(s, x) = Count(t, x)

\* The step is a call of extract_unique_user_ids.
IsExtractCall == ~lastCall.open /\ lastCall'.open

\* C6 as stated: once extract_unique_user_ids has returned for a path set, a
\* later call on the same object with the identical set of paths returns the
\* identical list and reads no file.
C6_SamePathSetIsCacheHit ==
    [][IsExtractCall =>
        \A k \in DOMAIN user_cache :
            Range(k) = Range(lastCall'.paths) =>
                /\ lastCall'.hit
                /\ lastCall'.result = user_cache[k]
                /\ nReads' = nReads]_vars

\* C6 amended: a later call whose path list is a reordering of an earlier
\* call's list (the same paths, each as many times) returns the identical
\* list and reads no file, whatever the files hold by then.
C6_ReorderedListIsCacheHit ==
    [][IsExtractCall =>
        \A k \in DOMAIN user_cache :
            SameList(k, lastCall'.paths) =>
                /\ lastCall'.hit
                /\ lastCall'.result = user_cache[k]
                /\ nReads' = nReads]_vars

\* A call answered from the cache although its list is in another order than
\* the cached key.
C6_Witness ==
    /\ lastCall.open
    /\ lastCall.hit
    /\ lastCall.paths # CacheKey(lastCall.paths)
    /\ lastCall.result # <<>>

IsBlank(t) == \A i \in 1..Len(t) : t[i] = SP

\* t is c without its leading and trailing spaces.
IsTrimOf(t, c) ==
    \E i \in 1..Len(c) : \E j \in i..Len(c) :
        /\ t = SubSeq(c, i, j)
        /\ c[i] # SP /\ c[j] # SP
        /\ IsBlank(SubSeq(c, 1, i - 1)) /\ IsBlank(SubSeq(c, j + 1, Len(c)))

ServiceFailed(response) ==
    \/ response.kind = "raises"
    \/ response.kind = "answers" /\ response.status # HttpOk
    \/ response.kind = "answers" /\ response.body # "rates"
    \/ response.kind = "answers" /\ \A i \in 1..Len(response.rates) : response.rates[i] = NoInr

\* C10: get_exchange_rate never raises; whenever the rate service fails
\* (raises, answers with a non-200 status, or delivers no INR rate) the call
\* returns the configured fallback rate; with live rates disabled it returns
\* the fallback rate and the service is never called.
C10_RateResolverNeverRaises ==
    /\ lastRate.open =>
        /\ ~lastRate.raised
        /\ (lastRate.called /\ ServiceFailed(lastRate.response)) =>
              lastRate.rate = FallbackRate
        /\ ~use_live_rates => (lastRate.rate = FallbackRate /\ ~lastRate.called)
    /\ ~use_live_rates => nRateCalls = 0

\* The service answered with HTTP 500 and the call returned the fallback.
C10_Witness ==
    /\ lastRate.open /\ lastRate.called
    /\ lastRate.response.status = 500
    /\ lastRate.rate = FallbackRate
    /\ ~lastRate.raised

(***************************************************************************)
(* Properties of the query batcher.                                        *)
(***************************************************************************)
\* The rows of the answers that did not fail, in the order of the answers.
RECURSIVE RowsInOrder(_)
RowsInOrder(answers) ==
    IF answers = <<>> THEN <<>>
    ELSE (IF Head(answers).failed THEN <<>> ELSE Head(answers).rows)
         \o RowsInOrder(Tail(answers))

\* C4: no query of run_query carries more than chunk_size identifiers; the
\* k-th query sent carries the k-th run of chunk_size consecutive identifiers
\* of the list; and the returned table is the row sets of the answers joined
\* in the order the queries were sent, each chunk having been queried.
C4_ChunksBoundedAndInOrder ==
    /\ \A k \in 1..Len(q.sent) :
        /\ Len(q.sent[k]) <= chunk_size
        /\ Len(q.sent[k]) >= 1
        /\ \A j \in 1..Len(q.sent[k]) :
              /\ (k - 1) * chunk_size + j <= Len(q.user_ids)
              /\ q.sent[k][j] = q.user_ids[(k - 1) * chunk_size + j]
    /\ q.pc = "returned" =>
        /\ q.result = RowsInOrder(q.answers)
        /\ Len(q.sent) * chunk_size >= Len(q.user_ids)

\* Three identifiers with chunk_size 2: two queries, of 2 and of 1, both
\* answered with rows, and the result holds the rows of both.
C4_Witness ==
    /\ q.pc = "returned"
    /\ chunk_size = 2
    /\ Len(q.user_ids) = 3
    /\ Len(q.sent) = 2
    /\ Len(q.sent[1]) = 2 /\ Len(q.sent[2]) = 1
    /\ Len(q.result) = 3

(***************************************************************************)
(* Properties of the orchestrator and of the cohort aggregator.            *)
(***************************************************************************)
\* The k-th run of window_size consecutive labels of the list, shorter at
\* the end of the list.
KthGroup(cohorts, k) ==
    SubSeq(cohorts, (k - 1) * window_size + 1, Min(k * window_size, Len(cohorts)))

\* C1: the k-th group handed to process_cohort_group is the k-th run of
\* window_size consecutive labels; run_full_pipeline hands over the full
\* groups only, so when it returns the labels of a short trailing group have
\* been in no group, and run_specific_cohorts hands over every group, the
\* short trailing one too.
C1_WindowGrouping ==
    /\ \A k \in 1..Len(groups) :
        /\ groups[k] = KthGroup(orch.cohorts, k)
        /\ groups[k] # <<>>
        /\ orch.mode = "full" => Len(groups[k]) = window_size
    /\ (orch.pc = "returned" /\ orch.mode = "full") =>
          Len(groups) = Len(orch.cohorts) \div window_size
    /\ (orch.pc = "returned" /\ orch.mode = "specific") =>
          /\ Concat(groups) = orch.cohorts
          /\ Len(groups) = (Len(orch.cohorts) + window_size - 1) \div window_size

\* Three folders with window_size 2 in run_full_pipeline: one group of two
\* was processed, the third folder was not.
C1_Witness ==
    /\ orch.pc = "returned" /\ orch.mode = "full"
    /\ window_size = 2
    /\ Len(orch.cohorts) = 3
    /\ Len(groups) = 1
    /\ Len(orch.results) = 1

\* The dict the call of process_cohort_group in progress is about to return.
WindowDone == win.pc = "pool" /\ win.merged = Packs
WindowResult == CohortResult(win.group[1], win.total, win.pack_results)

\* C2 as stated: when every future is merged, a result is returned in which
\* the field of each pack whose worker raised is 0 and the field of every
\* other pack is the revenue its process_pack call returned.
C2_FailedPackIsZeroOthersExact ==
    WindowDone =>
        \A p \in Packs :
            /\ FieldKey(pack_types[p]) \in DOMAIN WindowResult.fields
            /\ WindowResult.fields[FieldKey(pack_types[p])]
                  = (IF workers[p].raised THEN 0 ELSE workers[p].revenue)

\* C3 as stated: in the result process_cohort_group returns, Total Revenue is
\* the sum of the per-pack revenue fields of that result.
RECURSIVE SumOver(_, _)
SumOver(f, keys) ==
    IF keys = {} THEN 0
    ELSE LET k == CHOOSE x \in keys : TRUE IN f[k] + SumOver(f, keys \ {k})

C3_TotalIsSumOfPackFields ==
    WindowDone =>
        WindowResult.fields[TotalKey]
           = SumOver(WindowResult.fields, DOMAIN WindowResult.fields \ {TotalKey})

\* C5: a window in which extraction gave no identifier for any pack ends
\* with Total Revenue 0, and no query was sent while it was processed.
C5_EmptyWindowIsZeroWithoutQueries ==
    (WindowDone /\ \A p \in Packs : workers[p].empty) =>
        /\ WindowResult.fields[TotalKey] = 0
        /\ win.total = 0
        /\ nQueries = 0

\* A window of two packs, files read for both, no identifier in any.
C5_Witness ==
    /\ WindowDone
    /\ Len(pack_types) = 2
    /\ \A p \in Packs : workers[p].empty /\ ~workers[p].raised
    /\ nReads > 0
    /\ nQueries = 0
    /\ WindowResult.fields[TotalKey] = 0

\* C8: an entry point whose backend initialization failed has raised: no
\* group was handed to process_cohort_group, no file was read, no query was
\* sent, no result exists and nothing is returned.
C8_InitFailureAbortsRun ==
    (orch.mode # "none" /\ client = "none") =>
        /\ orch.pc = "raised"
        /\ groups = <<>>
        /\ win.pc = "none"
        /\ nReads = 0 /\ user_cache = <<>>
        /\ nQueries = 0
        /\ orch.results = <<>>

\* An entry point has raised on the failed initialization.
C8_Witness ==
    /\ orch.pc = "raised"
    /\ orch.mode = "specific"
    /\ client = "none"

\* C9 as stated: an entry point that returns a non-empty list of results has
\* called save_summary with that list.
C9_SummarySavedWhenResults ==
    (orch.pc = "returned" /\ orch.results # <<>>) =>
        /\ saved.invoked
        /\ saved.results = orch.results

(***************************************************************************)
(* Properties of get_date_range.                                           *)
(***************************************************************************)
\* A label "<day>_<month>" with a recognized month in any letter case and a
\* day between 1 and 31.
IsDayMonthLabel(cohort_name) ==
    /\ Len(cohort_name) = 2
    /\ IsDigits(cohort_name[1])
    /\ IntOf(cohort_name[1]) \in 1..31
    /\ InMonthMap(Lower(cohort_name[2]))

\* The pair returned is a start date and the date window_size - 1 days later.
ResolvedToWindow(result) ==
    /\ result # NoDates
    /\ result[2] - result[1] = window_size - 1

\* C11 as stated: every label with a recognized month and a day from 1 to 31
\* resolves, to dates window_size - 1 days apart.
C11_EveryDayUpTo31Resolves ==
    (lastDates.open /\ IsDayMonthLabel(lastDates.cohort_name)) =>
        ResolvedToWindow(lastDates.result)

\* C11, amended: every label with a recognized month and a day that month
\* has in the current year resolves, to dates window_size - 1 days apart.
C11_EveryDayOfTheMonthResolves ==
    (/\ lastDates.open
     /\ IsDayMonthLabel(lastDates.cohort_name)
     /\ IntOf(lastDates.cohort_name[1])
           <= DaysInMonth(MonthOf(Lower(lastDates.cohort_name[2])), leap)) =>
        ResolvedToWindow(lastDates.result)

\* Day 31 of a month written in mixed case, resolved for a window of two days.
C11_Witness ==
    /\ lastDates.open
    /\ lastDates.cohort_name = << <<"3", "1">>, <<"j", "u", "L", "y">> >>
    /\ window_size = 2
    /\ lastDates.result # NoDates
    /\ lastDates.result[2] = lastDates.result[1] + 1

(***************************************************************************)
(* Properties of the orchestrator's loop.                                  *)
(***************************************************************************)
\* How many windows an entry point hands to process_cohort_group.
WindowCount(mode, cohorts) ==
    IF mode = "full" THEN Len(cohorts) \div window_size
    ELSE (Len(cohorts) + window_size - 1) \div window_size

\* Whether the label of a window resolves to a date range.
Resolves(cohort_group) == GetDateRange(cohort_group[1], window_size, leap) # NoDates

\* The labels of the first n windows that resolve, in the order of the list.
RECURSIVE ResolvableLabels(_, _)
ResolvableLabels(cohorts, n) ==
    IF n = 0 THEN <<>>
    ELSE LET before == ResolvableLabels(cohorts, n - 1)
             cohort_group == KthGroup(cohorts, n)
         IN  IF Resolves(cohort_group) THEN Append(before, cohort_group[1]) ELSE before

\* C12: a window is in progress only for the group handed over last, and
\* when its workers are submitted the label of that group has resolved, so
\* for a label that does not resolve no worker is started; outside a window
\* in progress, and so after a skipped window, there is no worker and no
\* file was read or query sent since the last result; and the list an entry
\* point returns holds the results of exactly the windows that resolve, in
\* the order of the list.
C12_UnresolvableWindowAloneIsSkipped ==
    /\ win.pc = "pool" =>
          /\ win.group = groups[Len(groups)]
          /\ win.dates # NoDates
    /\ (win.pc = "pool" /\ win.merged = {} /\ \A p \in Packs : workers[p].st = "queued") =>
          Resolves(win.group)
    /\ win.pc = "none" =>
          /\ workers = <<>>
          /\ nReads = 0
          /\ nQueries = 0
    /\ orch.pc = "returned" =>
          [k \in 1..Len(orch.results) |-> orch.results[k].cohort]
             = ResolvableLabels(orch.cohorts, WindowCount(orch.mode, orch.cohorts))

\* Two selected labels, one window each: the first does not resolve, the
\* second does and is the only result.
C12_Witness ==
    /\ orch.pc = "returned"
    /\ window_size = 1
    /\ Len(groups) = 2
    /\ ~Resolves(groups[1])
    /\ Resolves(groups[2])
    /\ Len(orch.results) = 1
    /\ orch.results[1].cohort = groups[2][1]

(***************************************************************************)
(* Properties of the stop signal.                                          *)
(***************************************************************************)
\* C13 as stated: once Stop was pressed during a run, no window is begun
\* that had not been begun at that moment.
C13_NoNewWindowAfterStop ==
    app.status = "idle" => Len(groups) = app.windows_at_stop

(***************************************************************************)
(* Properties of the worker pool.                                          *)
(***************************************************************************)
\* The workers of the window in progress that have not finished.
Unfinished == {p \in DOMAIN workers : workers[p].st # "done"}

\* C14: workers exist only inside the window in progress, one per
\* configured pack, all of them of the window begun last; a window is begun
\* or ended only when no worker is unfinished; at most six workers run at a
\* time; and a window's result is returned only when the worker of every
\* pack has finished, also with more packs than pool threads.
C14_WindowsDoNotOverlap ==
    /\ win.pc = "none" => workers = <<>>
    /\ win.pc = "pool" =>
          /\ DOMAIN workers = Packs
          /\ groups # <<>>
          /\ win.group = groups[Len(groups)]
          /\ Len(orch.results) < Len(groups)
    /\ Cardinality(Running) <= 6
    /\ Cardinality(Running) > 1 => win.pc = "pool"
    /\ WindowDone => Unfinished = {}
    /\ Len(orch.results) = Len(groups) => Unfinished = {}

\* A window of seven packs: the seventh worker waited for a pool thread, and
\* all seven have finished and are merged.
C14_Witness ==
    /\ Len(pack_types) = 7
    /\ Len(groups) = 2
    /\ WindowDone
    /\ Unfinished = {}
    /\ Len(orch.results) = 1

(***************************************************************************)
(* Properties of the progress an invocation reports.                       *)
(***************************************************************************)
\* C15 as stated: in every call of an entry point, the first on an object
\* or a later one, the processed count written to the progress state after
\* the k-th result of the call is k, and so at most the call's total.
C15_ProgressCountsThisInvocation ==
    orch.pc \in {"loop", "returned"} =>
        /\ status.processed = Len(orch.results)
        /\ status.processed <= status.total

(***************************************************************************)
(* Properties of run_query under failing chunks.                           *)
(***************************************************************************)
\* The row sets of the chunks that were answered with at least one row.
RECURSIVE SuccessfulRowSets(_)
SuccessfulRowSets(answers) ==
    IF answers = <<>> THEN <<>>
    ELSE LET rest == SuccessfulRowSets(Tail(answers))
         IN  IF Head(answers).failed \/ Head(answers).rows = <<>> THEN rest
             ELSE <<Head(answers).rows>> \o rest

\* C16: a failed chunk query does not end run_query: a chunk is queried
\* after it when identifiers remain, the call returns with one query sent
\* per chunk, the table returned is the non-empty row sets of the chunks
\* that succeeded joined in chunk order, and it is the empty table when every
\* chunk failed or had no row.
C16_FailedChunkIsSkipped ==
    /\ (q.pc = "loop" /\ q.answers # <<>> /\ q.answers[Len(q.answers)].failed) =>
          q.i = Len(q.answers) * chunk_size
    /\ q.pc = "returned" =>
          /\ Len(q.answers) = QueriesSent(q.user_ids, chunk_size)
          /\ Len(q.sent) = Len(q.answers)
          /\ q.result = Concat(SuccessfulRowSets(q.answers))
          /\ (\A k \in 1..Len(q.answers) :
                 q.answers[k].failed \/ q.answers[k].rows = <<>>) => q.result = <<>>

\* Three chunks of one identifier: the first and the third are answered with
\* a row, the second fails, and the table returned holds the two rows.
C16_Witness ==
    /\ q.pc = "returned"
    /\ chunk_size = 1
    /\ Len(q.answers) = 3
    /\ ~q.answers[1].failed /\ q.answers[1].rows # <<>>
    /\ q.answers[2].failed
    /\ ~q.answers[3].failed /\ q.answers[3].rows # <<>>
    /\ Len(q.result) = 2

(***************************************************************************)
(* Properties of process_pack's batches and chunks.                        *)
(***************************************************************************)
\* The revenue of the identifiers of the list that have events, each once.
RevenueOnce(user_ids, has) ==
    SumSeq([k \in 1..Len(user_ids) |->
               IF user_ids[k] \in has THEN ValueInr(user_ids[k], FallbackRate) ELSE 0])

\* C17: when process_pack returns for a non-empty list of identifiers, the
\* chunks it sent hold every identifier of the list exactly once and nothing
\* else, no chunk is longer than chunk_size, as many queries were sent as
\* chunks, the total is that of the pipeline's own computation, and when no
\* chunk failed the total counts the revenue of each identifier once.
C17_EachIdentifierQueriedOnce ==
    (pk.pc = "returned" /\ pk.user_ids # <<>>) =>
        /\ \A uid \in Range(pk.user_ids) : Count(Concat(pk.sent), uid) = 1
        /\ Range(Concat(pk.sent)) = Range(pk.user_ids)
        /\ \A k \in 1..Len(pk.sent) : Len(pk.sent[k]) \in 1..chunk_size
        /\ nQueries = Len(pk.sent)
        /\ pk.revenue = PackRevenue(PackRows(pk.user_ids, batch_size, chunk_size,
                                             FallbackRate, pk.has, pk.down))
        /\ pk.down = {} => pk.revenue = RevenueOnce(pk.user_ids, pk.has)

\* Three identifiers, batches of three and chunks of two: the batch is sent
\* as a chunk of two and a chunk of one, and all three have revenue.
C17_Witness ==
    /\ pk.pc = "returned"
    /\ Len(pk.user_ids) = 3
    /\ batch_size = 3 /\ chunk_size = 2
    /\ Len(pk.sent) = 2
    /\ pk.has = Range(pk.user_ids) /\ pk.down = {}
    /\ pk.revenue = RevenueOnce(pk.user_ids, pk.has)
    /\ pk.revenue > 0

====
